---- MODULE Spec2Model ----
(***************************************************************************)
(* Connectivity scoring of src/app.py: the cost-bounded traversal behind   *)
(* calculate_isochrone (nx.ego_graph over edge attribute 'length'), the    *)
(* per-zone scoring loop of calculate_connectivity_scores, and main's      *)
(* memoized call and normalisation of the scores.                          *)
(*                                                                         *)
(* Three specifications share the operators below:                         *)
(*   SpecReach  one bounded traversal, one heap pop per step;              *)
(*   SpecScore  one call of calculate_connectivity_scores, one zone per    *)
(*              step;                                                      *)
(*   SpecMain   successive reruns of main against the st.cache_data cache. *)
(***************************************************************************)
EXTENDS Integers, Sequences, FiniteSets, TLC

VARIABLES
    G,              \* the street network handed to the traversal / the scorer
    source,         \* SpecReach: center_node of the traversal
    radius,         \* SpecReach: the cutoff (max_dist)
    dj,             \* SpecReach: heap, seen, dist of the running Dijkstra
    ego,            \* SpecReach: node set of the returned ego graph
    rpc,            \* SpecReach: "run" | "done" | "idle"
    quartieri,      \* the zone table: a sequence of [NIL, geometry]
    poi,            \* the points of interest, geographic coordinates
    max_distance,   \* the travel budget of the scorer
    idx,            \* SpecScore: loop state [i, connectivity_scores, aborted]
    result,         \* SpecScore: what calculate_connectivity_scores returned
    spc,            \* SpecScore: "loop" | "returned" | "idle"
    selected_services,  \* SpecMain: the sidebar's multiselect
    transport_mode,     \* SpecMain: the sidebar's selectbox
    max_time,           \* SpecMain: the sidebar's slider
    score_cache,        \* SpecMain: st.cache_data of calculate_connectivity_scores
    calls,              \* SpecMain: per cache key, how often the function body ran
    served,             \* SpecMain: every <<key, value>> the memoized call returned
    hit,                \* SpecMain: the last call was answered from the cache
    punteggio_norm,     \* SpecMain: the normalised column of the zone table
    runs,               \* SpecMain: reruns of the script so far
    mpc                 \* SpecMain: "start" | "scored" | "stopped" | "idle"

vars == <<G, source, radius, dj, ego, rpc,
          quartieri, poi, max_distance, idx, result, spc,
          selected_services, transport_mode, max_time, score_cache, calls,
          served, hit, punteggio_norm, runs, mpc>>

mainVars == <<selected_services, transport_mode, max_time, score_cache, calls,
              served, hit, punteggio_norm, runs, mpc>>

reachVars == <<source, radius, dj, ego, rpc>>

scoreVars == <<quartieri, poi, max_distance, idx, result, spc>>

(***************************************************************************)
(* Bounds of the explored inputs.                                          *)
(***************************************************************************)
MaxEdges == 3
MaxLength == 2
MaxBudget == 2
MaxZones == 2
MaxRuns == 2

(***************************************************************************)
(* Graphs.  A graph is [nodes, pos, edges]: edges is a set of              *)
(* <<u, v, length>>, directed as in the MultiDiGraph osmnx builds; two     *)
(* triples with the same endpoints are parallel edges.                     *)
(***************************************************************************)
Nodes == {0, 1, 2}

Min(S) == CHOOSE x \in S : \A y \in S : x <= y

Max(S) == CHOOSE x \in S : \A y \in S : x >= y

\* Ascending enumeration of a finite set of integers.
RECURSIVE Ascending(_)
Ascending(S) == IF S = {} THEN <<>> ELSE <<Min(S)>> \o Ascending(S \ {Min(S)})

EdgeTriples == {<<u, v, w>> : u \in Nodes, v \in Nodes, w \in 0..MaxLength}

RECURSIVE SubsetsUpTo(_, _)
SubsetsUpTo(S, k) ==
    IF k = 0 THEN {{}}
    ELSE LET smaller == SubsetsUpTo(S, k - 1)
         IN  smaller \cup {T \cup {e} : T \in smaller, e \in S}

\* The 4-node line graph 0 - 1 - 2 - 3 with costs 1, 2, 1, both directions.
LineGraph ==
    [nodes |-> {0, 1, 2, 3},
     pos   |-> [n \in {0, 1, 2, 3} |-> <<n, 0>>],
     edges |-> {<<0, 1, 1>>, <<1, 0, 1>>, <<1, 2, 2>>, <<2, 1, 2>>,
                <<2, 3, 1>>, <<3, 2, 1>>}]

ReachGraphs ==
    {[nodes |-> Nodes, pos |-> [n \in Nodes |-> <<n, 0>>], edges |-> E] :
        E \in SubsetsUpTo(EdgeTriples, MaxEdges)}
        \cup {LineGraph}

(***************************************************************************)
(* nx.ego_graph(G, n, radius, distance='length'): single_source_dijkstra   *)
(* with cutoff = radius, then the subgraph induced on the keys of dist.    *)
(***************************************************************************)
Successors(g, v) == {e[2] : e \in {f \in g.edges : f[1] = v}}

\* distance=None would count every edge as one hop
EdgeCostHops(g, v, u) == 1

EdgeCostMax(g, v, u) == Max({e[3] : e \in {f \in g.edges : f[1] = v /\ f[2] = u}})

\* weight of v -> u in a multigraph: the cheapest of the parallel edges
EdgeCost(g, v, u) == Min({e[3] : e \in {f \in g.edges : f[1] = v /\ f[2] = u}})

ExceedsCutoffInverted(vu_dist, cutoff) == vu_dist < cutoff

\* "if vu_dist > cutoff: continue"
ExceedsCutoff(vu_dist, cutoff) == vu_dist > cutoff

DijkstraInit(n) ==
    [dist   |-> <<>>,
     seen   |-> (n :> 0),
     fringe |-> {<<0, 0, n>>},
     c      |-> 1,
     raised |-> FALSE]

\* heappop: the entry least in (distance, push counter)
HeapTop(fringe) ==
    CHOOSE t \in fringe :
        \A o \in fringe : t[1] < o[1] \/ (t[1] = o[1] /\ t[2] <= o[2])

\* the body of "for u, e in G_succ[v].items()" for one neighbour u
Relax(g, cutoff, v, u, st) ==
    LET vu_dist == st.dist[v] + EdgeCost(g, v, u)
    IN  IF st.raised \/ ExceedsCutoff(vu_dist, cutoff) THEN st
        ELSE IF u \in DOMAIN st.dist
             THEN IF vu_dist < st.dist[u]
                  THEN [st EXCEPT !.raised = TRUE]   \* ValueError: contradictory paths
                  ELSE st
        ELSE IF u \notin DOMAIN st.seen \/ vu_dist < st.seen[u]
             THEN [st EXCEPT !.seen = (u :> vu_dist) @@ st.seen,
                             !.fringe = @ \cup {<<vu_dist, st.c, u>>},
                             !.c = @ + 1]
        ELSE st

RECURSIVE RelaxAll(_, _, _, _, _)
RelaxAll(g, cutoff, v, us, st) ==
    IF us = <<>> THEN st
    ELSE RelaxAll(g, cutoff, v, Tail(us), Relax(g, cutoff, v, Head(us), st))

\* one iteration of "while fringe"
DijkstraStep(g, cutoff, st) ==
    LET top  == HeapTop(st.fringe)
        d    == top[1]
        v    == top[3]
        rest == [st EXCEPT !.fringe = @ \ {top}]
    IN  IF v \in DOMAIN st.dist THEN rest
        ELSE RelaxAll(g, cutoff, v, Ascending(Successors(g, v)),
                      [rest EXCEPT !.dist = (v :> d) @@ st.dist])

DijkstraOver(st) == st.fringe = {} \/ st.raised

RECURSIVE DijkstraRun(_, _, _)
DijkstraRun(g, cutoff, st) ==
    IF DijkstraOver(st) THEN st ELSE DijkstraRun(g, cutoff, DijkstraStep(g, cutoff, st))

\* the nodes of nx.ego_graph(g, n, radius=cutoff, distance='length')
EgoNodes(g, n, cutoff) == DOMAIN DijkstraRun(g, cutoff, DijkstraInit(n)).dist

\* what calculate_connectivity_scores returns: None, or the list
NoScores == [none |-> TRUE, scores |-> <<>>]

Scores(list) == [none |-> FALSE, scores |-> list]

\* the loop of calculate_connectivity_scores before its first pass
LoopInit == [i |-> 1, connectivity_scores |-> <<>>, aborted |-> FALSE]

IdleReach ==
    /\ source = 0
    /\ radius = 0
    /\ dj = DijkstraInit(0)
    /\ ego = {}
    /\ rpc = "idle"

IdleScore ==
    /\ quartieri = <<>>
    /\ poi = {}
    /\ max_distance = 0
    /\ idx = LoopInit
    /\ result = NoScores
    /\ spc = "idle"

IdleMain ==
    /\ selected_services = {}
    /\ transport_mode = "A piedi"
    /\ max_time = 0
    /\ score_cache = <<>>
    /\ calls = <<>>
    /\ served = {}
    /\ hit = FALSE
    /\ punteggio_norm = <<>>
    /\ runs = 0
    /\ mpc = "idle"

(***************************************************************************)
(* SpecReach: the traversal of calculate_isochrone, one heap pop per step. *)
(***************************************************************************)
InitReach ==
    /\ G \in ReachGraphs
    /\ source \in G.nodes
    /\ radius \in 0..MaxBudget
    /\ dj = DijkstraInit(source)
    /\ ego = {}
    /\ rpc = "run"
    /\ IdleScore
    /\ IdleMain

\* pop a node whose distance is already final: "if v in dist: continue"
DijkstraSkip ==
    /\ rpc = "run"
    /\ ~DijkstraOver(dj)
    /\ HeapTop(dj.fringe)[3] \in DOMAIN dj.dist
    /\ dj' = DijkstraStep(G, radius, dj)
    /\ UNCHANGED <<G, source, radius, ego, rpc, scoreVars, mainVars>>

\* pop a node, fix its distance and relax its out-edges
DijkstraSettle ==
    /\ rpc = "run"
    /\ ~DijkstraOver(dj)
    /\ HeapTop(dj.fringe)[3] \notin DOMAIN dj.dist
    /\ dj' = DijkstraStep(G, radius, dj)
    /\ UNCHANGED <<G, source, radius, ego, rpc, scoreVars, mainVars>>

\* the heap is empty: ego_graph returns the subgraph on the keys of dist
EgoGraphReturn ==
    /\ rpc = "run"
    /\ DijkstraOver(dj)
    /\ ego' = DOMAIN dj.dist
    /\ rpc' = "done"
    /\ UNCHANGED <<G, source, radius, dj, scoreVars, mainVars>>

NextReach == DijkstraSkip \/ DijkstraSettle \/ EgoGraphReturn

SpecReach == InitReach /\ [][NextReach]_vars

(***************************************************************************)
(* Reference: the nodes some walk from n reaches with cumulative cost at   *)
(* most b, as the least fixed point over (node, cost) pairs.               *)
(***************************************************************************)
RECURSIVE WalkClosure(_, _, _)
WalkClosure(g, b, R) ==
    LET steps == {<<p, e>> \in R \X g.edges : e[1] = p[1] /\ p[2] + e[3] <= b}
        ok    == {<<s[2][2], s[1][2] + s[2][3]>> : s \in steps}
    IN  IF ok \subseteq R THEN R ELSE WalkClosure(g, b, R \cup ok)

WithinBudget(g, n, b) == {p[1] : p \in WalkClosure(g, b, {<<n, 0>>})}

\* C1: when the traversal has returned, the ego graph's nodes are exactly the
\* nodes whose cheapest path from the source costs at most the budget.
C1_ExactReachableSet ==
    rpc = "done" => /\ ~dj.raised
                    /\ ego = WithinBudget(G, source, radius)

C1_Witness ==
    /\ rpc = "done"
    /\ \E u \in G.nodes, v \in G.nodes :
          /\ u \in ego /\ v \notin ego /\ u # source
          /\ \E e \in G.edges : e[1] = source /\ e[2] = v
    /\ \E e \in G.edges, f \in G.edges : e[1] = f[1] /\ e[2] = f[2] /\ e[3] # f[3]

\* C2 as stated: the 4-node line graph with costs 1, 2, 1, from node 0 with
\* budget 2, yields the reachable set {0, 1, 2}.
C2_LineGraphAsStated ==
    (rpc = "done" /\ G = LineGraph /\ source = 0 /\ radius = 2) => ego = {0, 1, 2}

\* C2 amended: the 4-node line graph with costs 1, 2, 1, from node 0 with
\* budget 2, yields the reachable set {0, 1}; node 2 (cost 3) and node 3
\* (cost 4) are excluded.
C2_LineGraphBudget2 ==
    (rpc = "done" /\ G = LineGraph /\ source = 0 /\ radius = 2) => ego = {0, 1}

C2_Witness == rpc = "done" /\ G = LineGraph /\ source = 0 /\ radius = 2

\* C10: for the same graph and source, the node set reached with any smaller
\* budget is a subset of the node set reached with the budget of the run.
C10_BudgetMonotone ==
    rpc = "done" => \A b1 \in 0..radius : EgoNodes(G, source, b1) \subseteq ego

C10_Witness ==
    /\ rpc = "done"
    /\ \E b1 \in 0..radius :
          /\ Cardinality(EgoNodes(G, source, b1)) >= 2
          /\ EgoNodes(G, source, b1) # ego

(***************************************************************************)
(* Geometry on an integer grid.  A point is <<x, y>>.  The graph's working *)
(* CRS is the geographic one moved by CrsShift (ox.project_graph, line 69);*)
(* zones and POIs stay geographic.                                         *)
(***************************************************************************)
CrsShift == <<3, 1>>

\* ox.projection.project_geometry(geom, to_crs=G.graph['crs'])
ToCrs(p) == <<p[1] + CrsShift[1], p[2] + CrsShift[2]>>

\* ox.projection.project_geometry(geom, G.graph['crs'], to_crs='EPSG:4326')
ToGeographic(p) == <<p[1] - CrsShift[1], p[2] - CrsShift[2]>>

Cross(o, a, b) == (a[1] - o[1]) * (b[2] - o[2]) - (a[2] - o[2]) * (b[1] - o[1])

Between(x, a, b) == (a <= x /\ x <= b) \/ (b <= x /\ x <= a)

OnSegment(p, a, b) ==
    Cross(a, b, p) = 0 /\ Between(p[1], a[1], b[1]) /\ Between(p[2], a[2], b[2])

InTriangle(p, a, b, c) ==
    LET d1 == Cross(a, b, p)
        d2 == Cross(b, c, p)
        d3 == Cross(c, a, p)
    IN  /\ Cross(a, b, c) # 0
        /\ ~((d1 < 0 \/ d2 < 0 \/ d3 < 0) /\ (d1 > 0 \/ d2 > 0 \/ d3 > 0))

\* p lies in the closed convex hull of the points S (Caratheodory: in a
\* triangle, on a segment, or on a point of S)
InHull(p, S) ==
    \/ p \in S
    \/ \E a \in S, b \in S : OnSegment(p, a, b)
    \/ \E a \in S, b \in S, c \in S : InTriangle(p, a, b, c)

\* nodes.unary_union.convex_hull: the hull, held as its vertices; one vertex
\* is a Point, two a LineString, more a Polygon
ConvexHull(S) == {p \in S : ~InHull(p, S \ {p})}

ZeroArea(hull) == Cardinality(hull) <= 2

\* shapely's intersects: the point and the geometry share a point
Intersects(p, hull) == InHull(p, hull)

(***************************************************************************)
(* calculate_isochrone (lines 77-88).                                      *)
(***************************************************************************)
\* a geometry is [kind, lo, hi]: a zone polygon is the box with corners lo
\* and hi, a point has lo = hi; EMPTY is the empty geometry and NULL a row
\* whose geometry is None
Box(lo, hi) == [kind |-> "Polygon", lo |-> lo, hi |-> hi]

PointGeom(p) == [kind |-> "Point", lo |-> p, hi |-> p]

EmptyGeom == [kind |-> "EMPTY", lo |-> <<0, 0>>, hi |-> <<0, 0>>]

NullGeom == [kind |-> "NULL", lo |-> <<0, 0>>, hi |-> <<0, 0>>]

\* row.geometry.centroid
Centroid(geom) ==
    IF geom.kind = "EMPTY" THEN EmptyGeom
    ELSE PointGeom(<<(geom.lo[1] + geom.hi[1]) \div 2,
                     (geom.lo[2] + geom.hi[2]) \div 2>>)

\* what calculate_isochrone returns: None, or the hull
NoIsochrone == [none |-> TRUE, hull |-> {}]

Isochrone(hull) == [none |-> FALSE, hull |-> hull]


SqDist(p, q) == (p[1] - q[1]) * (p[1] - q[1]) + (p[2] - q[2]) * (p[2] - q[2])

\* ox.nearest_nodes: the node closest to (x, y); the lowest id among equals
NearestNode(g, p) ==
    Min({n \in g.nodes :
            \A m \in g.nodes : SqDist(g.pos[n], p) <= SqDist(g.pos[m], p)})

\* G.subgraph(sp): the edges with both ends among the reached nodes
InducedEdges(g, ns) == {e \in g.edges : e[1] \in ns /\ e[2] \in ns}

calculate_isochrone(g, center_point, max_dist) ==
    IF center_point.kind = "EMPTY" THEN NoIsochrone   \* no x, y to look up
    ELSE LET center_point_proj == ToCrs(center_point.lo)
             center_node == NearestNode(g, center_point_proj)
             subnodes    == EgoNodes(g, center_node, max_dist)
         IN  IF InducedEdges(g, subnodes) = {}
             THEN NoIsochrone          \* graph_to_gdfs: graph contains no edges
             ELSE Isochrone({ToGeographic(p) :
                      p \in ConvexHull({g.pos[n] : n \in subnodes})})

(***************************************************************************)
(* calculate_connectivity_scores (lines 90-115): the loop over the zones.  *)
(***************************************************************************)
\* lines 100-109: the score of one zone
ZoneScore(g, pts, centroid, d) ==
    LET isochrone == calculate_isochrone(g, centroid, d)
    IN  IF ~isochrone.none
        THEN Cardinality({p \in pts : Intersects(p, isochrone.hull)})
        ELSE 0

PrependScore(scores, score) == <<score>> \o scores

\* connectivity_scores.append(score)
AppendScore(scores, score) == Append(scores, score)

LoopOver(zones, st) == st.aborted \/ st.i > Len(zones)

LoopBodyAbortOnFailure(zones, pts, g, d, st) ==
    LET row == zones[st.i]
    IN  IF row.geometry.kind = "NULL"
           \/ calculate_isochrone(g, Centroid(row.geometry), d).none
        THEN [st EXCEPT !.aborted = TRUE]
        ELSE [st EXCEPT
                !.i = @ + 1,
                !.connectivity_scores =
                    AppendScore(@, ZoneScore(g, pts, Centroid(row.geometry), d))]

\* lines 98-110: one pass of "for idx, row in quartieri.iterrows()"
LoopBody(zones, pts, g, d, st) ==
    LET row == zones[st.i]
    IN  IF row.geometry.kind = "NULL"
        THEN [st EXCEPT !.aborted = TRUE]   \* None has no centroid: outer except
        ELSE [st EXCEPT
                !.i = @ + 1,
                !.connectivity_scores =
                    AppendScore(@, ZoneScore(g, pts, Centroid(row.geometry), d))]

\* lines 112-115: the list, or None from the outer except
LoopResult(st) == IF st.aborted THEN NoScores ELSE Scores(st.connectivity_scores)

RECURSIVE LoopRun(_, _, _, _, _)
LoopRun(zones, pts, g, d, st) ==
    IF LoopOver(zones, st) THEN st
    ELSE LoopRun(zones, pts, g, d, LoopBody(zones, pts, g, d, st))

calculate_connectivity_scores(zones, pts, g, d) ==
    LoopResult(LoopRun(zones, pts, g, d, LoopInit))

(***************************************************************************)
(* SpecScore: one call of calculate_connectivity_scores, a zone per step.  *)
(* The inputs: a street network over one of two node layouts (three nodes  *)
(* in a row, or a triangle), a zone table, a POI set and a budget.         *)
(***************************************************************************)
LayoutLine == (0 :> <<0, 0>>) @@ (1 :> <<1, 0>>) @@ (2 :> <<2, 0>>)

LayoutTriangle == (0 :> <<0, 0>>) @@ (1 :> <<2, 0>>) @@ (2 :> <<1, 2>>)

Layouts == {LayoutLine, LayoutTriangle}

\* the street slots: three two-way streets and a loop road at node 0
StreetSlots == {<<0, 1>>, <<1, 2>>, <<0, 2>>, <<0, 0>>}

Abs(x) == IF x < 0 THEN -x ELSE x

\* the 'length' of a street: the larger coordinate difference of its ends;
\* the loop road is one unit long
StreetLength(layout, s) ==
    IF s[1] = s[2] THEN 1
    ELSE Max({Abs(layout[s[1]][1] - layout[s[2]][1]),
              Abs(layout[s[1]][2] - layout[s[2]][2])})

StreetEdges(layout, open) ==
    UNION {{<<s[1], s[2], StreetLength(layout, s)>>,
            <<s[2], s[1], StreetLength(layout, s)>>} : s \in open}

\* the projected graph of get_street_network: positions in the working CRS
StreetGraph(layout, open) ==
    [nodes |-> Nodes,
     pos   |-> [n \in Nodes |-> ToCrs(layout[n])],
     edges |-> StreetEdges(layout, open)]

ScoreGraphs ==
    {StreetGraph(layout, open) : layout \in Layouts, open \in SUBSET StreetSlots}

ZoneGeoms == {Box(<<-1, 0>>, <<1, 2>>), Box(<<1, 0>>, <<3, 2>>), EmptyGeom, NullGeom}

ZoneTables ==
    UNION {{[i \in 1..n |-> [NIL |-> i, geometry |-> geoms[i]]] :
                geoms \in [1..n -> ZoneGeoms]} : n \in 0..MaxZones}

PoiSites == {<<0, 0>>, <<1, 0>>, <<1, 1>>}

InitScore ==
    /\ G \in ScoreGraphs
    /\ quartieri \in ZoneTables
    /\ poi \in SUBSET PoiSites
    /\ max_distance \in 0..MaxBudget
    /\ idx = LoopInit
    /\ result = NoScores
    /\ spc = "loop"
    /\ IdleReach
    /\ IdleMain

\* one zone scored and appended (0 when its isochrone could not be built)
ScoreZone ==
    /\ spc = "loop"
    /\ ~LoopOver(quartieri, idx)
    /\ quartieri[idx.i].geometry.kind # "NULL"
    /\ idx' = LoopBody(quartieri, poi, G, max_distance, idx)
    /\ UNCHANGED <<G, reachVars, mainVars, quartieri, poi, max_distance, result, spc>>

\* a row without geometry: the outer except returns None
ScoreAbort ==
    /\ spc = "loop"
    /\ ~LoopOver(quartieri, idx)
    /\ quartieri[idx.i].geometry.kind = "NULL"
    /\ idx' = LoopBody(quartieri, poi, G, max_distance, idx)
    /\ result' = LoopResult(idx')
    /\ spc' = "returned"
    /\ UNCHANGED <<G, reachVars, mainVars, quartieri, poi, max_distance>>

\* the loop is through: return connectivity_scores
ScoreReturn ==
    /\ spc = "loop"
    /\ LoopOver(quartieri, idx)
    /\ result' = LoopResult(idx)
    /\ spc' = "returned"
    /\ UNCHANGED <<G, reachVars, mainVars, quartieri, poi, max_distance, idx>>

NextScore == ScoreZone \/ ScoreAbort \/ ScoreReturn

SpecScore == InitScore /\ [][NextScore]_vars

\* the zone's isochrone could not be built
IsochroneFails(i) ==
    calculate_isochrone(G, Centroid(quartieri[i].geometry), max_distance).none

\* the POIs that share a point with the zone's isochrone
PoisInIsochrone(i) ==
    {p \in poi : InHull(p, calculate_isochrone(
                     G, Centroid(quartieri[i].geometry), max_distance).hull)}

AllZonesHaveGeometry ==
    \A i \in 1..Len(quartieri) : quartieri[i].geometry.kind # "NULL"

C8_OrderPreserved ==
    (spc = "returned" /\ ~result.none) =>
        /\ DOMAIN result.scores = DOMAIN quartieri
        /\ \A i \in DOMAIN quartieri :
              result.scores[i] = ZoneScore(G, poi, Centroid(quartieri[i].geometry),
                                    max_distance)

C8_Witness ==
    /\ spc = "returned"
    /\ ~result.none
    /\ Len(result.scores) = 2
    /\ result.scores[1] # result.scores[2]

\* the nodes reached from the zone's centroid
ZoneReached(i) ==
    EgoNodes(G, NearestNode(G, ToCrs(Centroid(quartieri[i].geometry).lo)),
             max_distance)

\* the reached nodes are one node or lie on one line
ZoneDegenerate(i) ==
    /\ quartieri[i].geometry.kind = "Polygon"
    /\ ZeroArea(ConvexHull({G.pos[n] : n \in ZoneReached(i)}))

\* C9 as stated: a zone whose reached nodes are a single node or collinear
\* (a zero-area region) scores 0 whatever the POIs, those on the point or
\* segment included.
C9_ZeroAreaCountsNothing ==
    (spc = "returned" /\ ~result.none) =>
        \A i \in 1..Len(quartieri) : ZoneDegenerate(i) => result.scores[i] = 0

(***************************************************************************)
(* main (lines 175-236): one rerun of the script per step, against the     *)
(* process-wide st.cache_data cache of calculate_connectivity_scores.      *)
(* The data sources are a fixed small town: two zones, a walking and a     *)
(* driving network over the triangle layout, one supermarket and one       *)
(* pharmacy.  Lengths and budgets are held in thirds of a metre, so that   *)
(* speed * 1000 / 3600 * max_time * 60 is a whole number.                  *)
(***************************************************************************)
Thirds(metres) == 3 * metres

Services == {"supermarket", "pharmacy"}

TransportModes == {"A piedi", "In auto"}

\* steps of the slider (5 to 60 minutes by 5)
TimeChoices == {5, 15, 25, 40}

\* load_geojson('quartieri_milano.geojson')
WorldZones ==
    <<[NIL |-> 1, geometry |-> Box(<<-1, 0>>, <<1, 2>>)],
      [NIL |-> 2, geometry |-> Box(<<1, 0>>, <<3, 2>>)]>>

\* get_street_network('Milano, Italia', network_type): walking uses two
\* two-way streets, driving a one-way ring
get_street_network(network_type) ==
    [nodes |-> Nodes,
     pos   |-> [n \in Nodes |-> ToCrs(LayoutTriangle[n])],
     edges |-> IF network_type = "walk"
               THEN {<<0, 1, Thirds(1000)>>, <<1, 0, Thirds(1000)>>,
                     <<1, 2, Thirds(2000)>>, <<2, 1, Thirds(2000)>>}
               ELSE {<<0, 1, Thirds(3000)>>, <<1, 2, Thirds(4000)>>,
                     <<2, 0, Thirds(5000)>>}]

AmenitySites(service) == IF service = "supermarket" THEN {<<1, 0>>} ELSE {<<1, 1>>}

\* get_amenities('Milano, Italia', {'amenity': selected}): None when the
\* provider has nothing for the tags
get_amenities(selected) ==
    [none |-> selected = {}, pts |-> UNION {AmenitySites(sv) : sv \in selected}]

\* line 199
NetworkType(mode) == IF mode = "A piedi" THEN "walk" ELSE "drive"

\* line 200, km/h
Speed(mode) == IF mode = "A piedi" THEN 5 ELSE 40

\* lines 226-227, in thirds of a metre
MaxDistance(speed, minutes) == Thirds(speed * 1000 * minutes * 60) \div 3600

\* st.cache_data hashes the arguments whose names do not start with an
\* underscore: of (_quartieri_json, _poi_json, _G, max_distance), the last
CacheKey(_quartieri_json, _poi_json, _G, d) == d

CacheNeverHit(cache, key) == FALSE

\* st.cache_data: a value is stored under the key
CacheHit(cache, key) == key \in DOMAIN cache

\* a normalised score: NaN, or the quotient num / den
NaN == [nan |-> TRUE, num |-> 0, den |-> 0]

\* pandas' Series / scalar on integers: 0 / 0 is NaN
Divide(a, b) == IF a = 0 /\ b = 0 THEN NaN ELSE [nan |-> FALSE, num |-> a, den |-> b]

SeriesMax(list) == Max({list[i] : i \in DOMAIN list})

\* lines 234-236: the column punteggio_norm
Normalise(value) ==
    IF value.none \/ value.scores = <<>> THEN <<>>
    ELSE [i \in DOMAIN value.scores |->
             Divide(value.scores[i], SeriesMax(value.scores))]

InitMain ==
    /\ G = get_street_network("walk")
    /\ quartieri = WorldZones
    /\ poi = {}
    /\ max_distance = 0
    /\ idx = LoopInit
    /\ result = NoScores
    /\ spc = "idle"
    /\ IdleReach
    /\ selected_services = {"supermarket", "pharmacy"}
    /\ transport_mode = "A piedi"
    /\ max_time = 15
    /\ score_cache = <<>>
    /\ calls = <<>>
    /\ served = {}
    /\ hit = FALSE
    /\ punteggio_norm = <<>>
    /\ runs = 0
    /\ mpc = "start"

\* the sidebar's state and the data main loads before it scores
Rerun(sel, mode, minutes) ==
    /\ mpc # "idle"
    /\ runs < MaxRuns
    /\ runs' = runs + 1
    /\ selected_services' = sel
    /\ transport_mode' = mode
    /\ max_time' = minutes
    /\ quartieri' = WorldZones
    /\ G' = get_street_network(NetworkType(mode))
    /\ poi' = get_amenities(sel).pts
    /\ UNCHANGED <<reachVars, idx, spc>>

\* lines 222-224: no amenities, the run stops before scoring
MainNoAmenities ==
    \E sel \in SUBSET Services, mode \in TransportModes, minutes \in TimeChoices :
        /\ Rerun(sel, mode, minutes)
        /\ get_amenities(sel).none
        /\ mpc' = "stopped"
        /\ result' = NoScores
        /\ punteggio_norm' = <<>>
        /\ hit' = FALSE
        /\ UNCHANGED <<max_distance, score_cache, calls, served>>

\* lines 226-236 on a cache miss: the function body runs and its value is stored
MainComputes ==
    \E sel \in SUBSET Services, mode \in TransportModes, minutes \in TimeChoices :
        LET d     == MaxDistance(Speed(mode), minutes)
            key   == CacheKey(quartieri', poi', G', d)
            value == calculate_connectivity_scores(quartieri', poi', G', d)
        IN  /\ Rerun(sel, mode, minutes)
            /\ ~get_amenities(sel).none
            /\ ~CacheHit(score_cache, key)
            /\ max_distance' = d
            /\ score_cache' =
                   (key :> [value |-> value, params |-> <<sel, mode, minutes>>])
                       @@ score_cache
            /\ calls' = (key :> (IF key \in DOMAIN calls THEN calls[key] + 1 ELSE 1))
                            @@ calls
            /\ served' = served \cup {<<key, value>>}
            /\ hit' = FALSE
            /\ result' = value
            /\ punteggio_norm' = Normalise(value)
            /\ mpc' = "scored"

\* lines 226-236 on a cache hit: the stored value is returned
MainCached ==
    \E sel \in SUBSET Services, mode \in TransportModes, minutes \in TimeChoices :
        LET d     == MaxDistance(Speed(mode), minutes)
            key   == CacheKey(quartieri', poi', G', d)
        IN  /\ Rerun(sel, mode, minutes)
            /\ ~get_amenities(sel).none
            /\ CacheHit(score_cache, key)
            /\ max_distance' = d
            /\ served' = served \cup {<<key, score_cache[key].value>>}
            /\ hit' = TRUE
            /\ result' = score_cache[key].value
            /\ punteggio_norm' = Normalise(score_cache[key].value)
            /\ mpc' = "scored"
            /\ UNCHANGED <<score_cache, calls>>

NextMain == MainNoAmenities \/ MainComputes \/ MainCached

SpecMain == InitMain /\ [][NextMain]_vars

Scored == mpc = "scored" /\ ~result.none

IsZero(x) == ~x.nan /\ x.num = 0

IsOne(x) == ~x.nan /\ x.den > 0 /\ x.num = x.den

InUnitInterval(x) == ~x.nan /\ x.den > 0 /\ 0 <= x.num /\ x.num <= x.den

\* C4 as stated: when the maximum raw score is 0, every zone's normalised
\* score is 0 and never NaN.
C4_ZeroMaxGivesZero ==
    (Scored /\ SeriesMax(result.scores) = 0) =>
        \A i \in DOMAIN punteggio_norm : IsZero(punteggio_norm[i])

\* C5 as stated: after a scoring run every normalised score lies in [0, 1],
\* the maximum raw score maps to 1 and a raw score of 0 maps to 0.
C5_NormalisedInUnitInterval ==
    Scored =>
        /\ DOMAIN punteggio_norm = DOMAIN quartieri
        /\ \A i \in DOMAIN punteggio_norm :
              /\ InUnitInterval(punteggio_norm[i])
              /\ result.scores[i] = SeriesMax(result.scores) => IsOne(punteggio_norm[i])
              /\ result.scores[i] = 0 => IsZero(punteggio_norm[i])

\* C6 as stated: the scores a run shows were computed under that run's own
\* choice of services, transport mode and budget.
C6_KeySeparatesParameters ==
    Scored =>
        score_cache[CacheKey(quartieri, poi, G, max_distance)].params
            = <<selected_services, transport_mode, max_time>>

\* C7: the function body runs once per cache key, its value is stored, and
\* every call with that key returns the one stored value.
C7_ComputedOncePerKey ==
    /\ DOMAIN calls = DOMAIN score_cache
    /\ \A key \in DOMAIN calls : calls[key] = 1
    /\ \A p \in served, q \in served : p[1] = q[1] => p[2] = q[2]
    /\ \A p \in served : p[1] \in DOMAIN score_cache /\ score_cache[p[1]].value = p[2]

C7_Witness ==
    /\ Scored
    /\ hit
    /\ calls[CacheKey(quartieri, poi, G, max_distance)] = 1
    /\ result = score_cache[CacheKey(quartieri, poi, G, max_distance)].value
    /\ SeriesMax(result.scores) > 0
====
